---- MODULE Spec2Model ----
(***************************************************************************)
(* Workflow orchestration core of kimi-writer: the NovelState record, the  *)
(* writing-phase and write-critique-phase tool handlers that mutate it,    *)
(* the iteration guard of request_revision, the phase transitions and the  *)
(* tool registry the agents dispatch through.                              *)
(***************************************************************************)
EXTENDS Integers, Sequences, FiniteSets, TLC

\* ---------------------------------------------------------------- bounds
MaxChapters == 2        \* total_chapters of the plan, and the largest chapter_number
MaxCount == 3           \* cap on a chapter's iteration counter
MaxConfigured == 2      \* largest configured max_write_critique_iterations explored
MaxCalls == 3           \* cap on the observed request_revision calls
MaxFaults == 1          \* file and state accesses that may fail in one run
MaxCurrent == 3         \* cap on current_chapter under approve_chapter
MaxTools == 2           \* tool instances that carry the same name
MaxRegistered == 3      \* register calls on one registry
MaxSubscribers == 2     \* websockets that may connect
MaxTasks == 2           \* manager coroutines in flight at once
MaxTime == 2            \* readings of the clock

\* ------------------------------------------------------ program constants
MinIterations == 1      \* AgentConfig: Field(ge=1)
MaxIterations == 10     \* AgentConfig: Field(le=10)
DefaultIterations == 2  \* AgentConfig: Field(default=2)
max_iterations == 2     \* RequestRevisionTool.execute: hard-coded limit

Phase == {"PLANNING", "PLAN_CRITIQUE", "WRITING", "WRITE_CRITIQUE", "COMPLETE"}

ChapterArgs == 1..MaxChapters

VARIABLES
    state,                  \* the in-memory NovelState shared by the handlers
    disk,                   \* the last snapshot save_state wrote
    config,                 \* NovelConfig.agent
    active_project_folder,  \* tools.project._active_project_folder
    manuscript,             \* chapter numbers n with manuscript/chapter_n.md
    active_agent,           \* the agent whose tool registry serves dispatches
    result,                 \* the result of the last tool dispatch
    faults,                 \* how many more file or state accesses may fail in this run
    watch,                  \* the chapter whose revision loop is observed (0: none)
    calls,                  \* request_revision(watch) calls since its last approval
    revisions,              \* WRITING transitions request_revision(watch) returned
    args,                   \* the chapter_number arguments the agents pass
    scene,                  \* the next call of the scripted scenario (0: no script)
    registry,               \* ToolRegistry._tools of one registry
    registered,             \* the tools passed to register, in call order
    invoked,                \* the tool whose handler the last dispatch ran
    snapshot,               \* the JSON document save_state wrote
    documents,              \* per project folder, the chapter files in it
    caller,                 \* the project whose workflow made the last dispatch
    created,                \* the projects whose workflow created their folder
    connections,            \* WebSocketManager.connections
    lock,                   \* WebSocketManager.lock: the task holding it (0: free)
    tasks,                  \* the coroutines running on the manager
    endpoint,               \* per socket, where its websocket_endpoint is
    first                   \* per socket, the first message it received

vars == <<state, disk, config, active_project_folder,
          manuscript, active_agent, result, faults, watch, calls, revisions,
          args, scene, registry, registered, invoked,
          snapshot, documents, caller, created, connections, lock, tasks,
          endpoint, first>>

\* ------------------------------------------------------------ data model
Range(s) == {s[i] : i \in 1..Len(s)}

\* dict.get(key, default)
Get(d, k, default) == IF k \in DOMAIN d THEN d[k] ELSE default

\* d[k] = v on a dict
Put(d, k, v) == [x \in DOMAIN d \cup {k} |-> IF x = k THEN v ELSE d[x]]

\* list.append(n) guarded by "if n not in list"
AppendIfAbsent(s, n) == IF n \in Range(s) THEN s ELSE Append(s, n)

NoTransition == "none"

\* The dictionary a handler returns, tagged with the call (tool name and
\* chapter_number argument) it answers.  error names the failing branch;
\* raised is TRUE when the handler did not return but let an exception escape;
\* save is how the save_state call of the dispatch went ("none": not called).
ToolResult(tool, n, success, error, transition, auto) ==
    [tool |-> tool, chapter_number |-> n, success |-> success,
     error |-> error, transition |-> transition, auto_approve |-> auto,
     raised |-> FALSE, save |-> "none", iteration |-> 0]

Failure(tool, n, error) == ToolResult(tool, n, FALSE, error, NoTransition, FALSE)

Raised(tool, n, error) == [Failure(tool, n, error) EXCEPT !.raised = TRUE]

NoResult == ToolResult("none", 0, TRUE, "none", NoTransition, FALSE)

\* ---------------------------------------------------- state store (spec)
AllowedEdges ==
    { <<"PLANNING", "PLAN_CRITIQUE">>,
      <<"PLAN_CRITIQUE", "WRITING">>,
      <<"PLAN_CRITIQUE", "PLANNING">>,
      <<"WRITING", "WRITE_CRITIQUE">>,
      <<"WRITE_CRITIQUE", "WRITING">>,
      <<"WRITE_CRITIQUE", "COMPLETE">> }

\* update_phase(state, new_phase): TRUE iff the edge is applied; otherwise the
\* call raises StateConflictError without mutating.
update_phase_ok(s, new_phase) == <<s.phase, new_phase>> \in AllowedEdges

\* the state a successful update_phase(state, new_phase) leaves
update_phase(s, new_phase) == [s EXCEPT !.phase = new_phase]

increment_chapter(s) == [s EXCEPT !.current_chapter = @ + 1]

\* save_state(state): the write succeeds at once ("ok"), fails and succeeds
\* on its retry ("retry_ok"), or fails twice ("fail").
SaveOutcomes == {"ok", "retry_ok", "fail"}

save_state_ok(w) == w # "fail"

\* the number of writes save_state attempts for an outcome
SaveWrites(w) == IF w = "ok" THEN 1 ELSE IF w = "none" THEN 0 ELSE 2

\* open(path, 'w') followed by writes: the open may fail, or a write may fail
\* after the open has created the file.
IoOutcomes == {"ok", "open_fails", "write_fails"}

\* the agent responsible for a phase (hand-off is a function of the phase)
AgentForPhase(p) ==
    CASE p = "WRITING" -> "writing"
      [] p = "WRITE_CRITIQUE" -> "write_critic"
      [] p = "PLANNING" -> "planning"
      [] p = "PLAN_CRITIQUE" -> "plan_critic"
      [] OTHER -> "none"

\* --------------------------------------------------------- tool registry
\* the names a dispatch may ask for; the last is the name of no tool
ToolNames == {"write_chapter", "finalize_chapter"}

DispatchNames == ToolNames \cup {"unknown_tool"}

\* BaseTool instances: several instances may carry the same name
Tools == [name : ToolNames, id : 1..MaxTools]

NoTool == [name |-> "none", id |-> 0]

RegisterKeepsFirst(reg, tool) ==
    IF tool.name \in DOMAIN reg THEN reg ELSE Put(reg, tool.name, tool)

\* ToolRegistry.register(tool): self._tools[tool.name] = tool
Register(reg, tool) == Put(reg, tool.name, tool)

LookupWithFallback(reg, name) ==
    IF name \in DOMAIN reg THEN reg[name]
    ELSE IF DOMAIN reg # {} THEN reg[CHOOSE k \in DOMAIN reg : TRUE]
    ELSE NoTool

\* ToolRegistry.get(name): the tool, or NoTool where get raises KeyError
Lookup(reg, name) == IF name \notin DOMAIN reg THEN NoTool ELSE reg[name]

\* -------------------------------------------------------------- scenario
\* the calls of the end-to-end scenario, in order
Script ==
    << <<"finalize_chapter", 1>>, <<"request_revision", 1>>,
       <<"request_revision", 1>>, <<"approve_chapter", 1>>,
       <<"finalize_chapter", 2>>, <<"approve_chapter", 2>>,
       <<"finalize_chapter", 3>>, <<"approve_chapter", 3>> >>

ScenarioChapters == {1, 2, 3}

\* the call the script asks for next
Scripted(tool, n) == scene \in DOMAIN Script /\ Script[scene] = <<tool, n>>

\* ------------------------------------------------------------- projects
Projects == {"a", "b"}

\* the project_path CreateProjectTool computes for a project
FolderOf(p) == IF p = "a" THEN "output/a" ELSE "output/b"

Folders == {FolderOf(p) : p \in Projects}

\* ----------------------------------------------------------- hub data
Subscribers == 1..MaxSubscribers

Slots == 1..MaxTasks

\* a slot in which no coroutine runs
\* what datetime.now() may return
Times == 1..MaxTime

NoMessage == [type |-> "none"]

\* the message dictionaries a caller passes to broadcast: the convenience
\* senders pass none with a timestamp, another caller may
Messages ==
    {[type |-> "update"]}
       \cup {[type |-> "update", timestamp |-> t] : t \in Times}

IdleTask ==
    [op |-> "idle", project |-> "none", ws |-> 0, pc |-> "idle",
     copy |-> {}, attempted |-> <<>>, delivered |-> {}, failed |-> {},
     raised |-> FALSE, given |-> NoMessage, message |-> NoMessage,
     sent |-> {}]

\* a socket no websocket_endpoint has been called for
NoEndpoint == [pc |-> "new", project |-> "none"]

NoSnapshot == [exists |-> FALSE]

\* ------------------------------------------------------------------ Init
\* nothing is saved, no project folder holds a file and no coroutine runs
\* on the manager, which has no connection
Quiet ==
    /\ snapshot = NoSnapshot
    /\ documents = [f \in Folders |-> {}]
    /\ caller = "none"
    /\ created = {}
    /\ connections = <<>>
    /\ lock = 0
    /\ tasks = [i \in Slots |-> IdleTask]
    /\ endpoint = [w \in Subscribers |-> NoEndpoint]
    /\ first = [w \in Subscribers |-> "none"]

\* no script is followed and the registry under observation is empty
Unscripted ==
    /\ scene = 0
    /\ registry = <<>>
    /\ registered = <<>>
    /\ invoked = NoTool
    /\ Quiet

Init ==
    /\ state = [phase |-> "WRITING", current_chapter |-> 1,
                total_chapters |-> MaxChapters,
                chapters_completed |-> <<>>, chapters_approved |-> <<>>,
                chapter_critique_iterations |-> <<>>]
    /\ disk = state
    /\ config = [max_write_critique_iterations |-> DefaultIterations]
    /\ active_project_folder \in {"none", "output/p"}
    /\ manuscript = {}
    /\ active_agent = "writing"
    /\ result = NoResult
    /\ faults = MaxFaults
    /\ watch = 0
    /\ calls = 0
    /\ revisions = 0
    /\ args = ChapterArgs
    /\ Unscripted

\* the runs in which one more access may fail, for the first chapter
InitFaults ==
    /\ state = [phase |-> "WRITING", current_chapter |-> 1,
                total_chapters |-> MaxChapters,
                chapters_completed |-> <<>>, chapters_approved |-> <<>>,
                chapter_critique_iterations |-> <<>>]
    /\ disk = state
    /\ config = [max_write_critique_iterations |-> DefaultIterations]
    /\ active_project_folder = "output/p"
    /\ manuscript = {}
    /\ active_agent = "writing"
    /\ result = NoResult
    /\ faults = MaxFaults + 1
    /\ watch = 0
    /\ calls = 0
    /\ revisions = 0
    /\ args = {1}
    /\ Unscripted

\* the runs in which one chapter's revision loop is observed
InitWatch ==
    /\ state = [phase |-> "WRITING", current_chapter |-> 1,
                total_chapters |-> MaxChapters,
                chapters_completed |-> <<>>, chapters_approved |-> <<>>,
                chapter_critique_iterations |-> <<>>]
    /\ disk = state
    /\ \E m \in MinIterations..MaxIterations :
         /\ m <= MaxConfigured
         /\ config = [max_write_critique_iterations |-> m]
    /\ active_project_folder = "output/p"
    /\ manuscript = {}
    /\ active_agent = "writing"
    /\ result = NoResult
    /\ faults = 0
    /\ watch \in ChapterArgs
    /\ calls = 0
    /\ revisions = 0
    /\ args = ChapterArgs
    /\ Unscripted

\* the runs in which the agents also pass a chapter_number beyond the plan:
\* the plan is one chapter shorter than the largest chapter_number
InitArgs ==
    /\ state = [phase |-> "WRITING", current_chapter |-> 1,
                total_chapters |-> MaxChapters - 1,
                chapters_completed |-> <<>>, chapters_approved |-> <<>>,
                chapter_critique_iterations |-> <<>>]
    /\ disk = state
    /\ config = [max_write_critique_iterations |-> DefaultIterations]
    /\ active_project_folder = "output/p"
    /\ manuscript = {}
    /\ active_agent = "writing"
    /\ result = NoResult
    /\ faults = 0
    /\ watch = 0
    /\ calls = 0
    /\ revisions = 0
    /\ args = ChapterArgs
    /\ Unscripted

\* the scenario: a plan of three chapters whose drafts are written, the
\* default iteration limit, and the script at its first call
InitScenario ==
    /\ state = [phase |-> "WRITING", current_chapter |-> 1,
                total_chapters |-> Cardinality(ScenarioChapters),
                chapters_completed |-> <<>>, chapters_approved |-> <<>>,
                chapter_critique_iterations |-> <<>>]
    /\ disk = state
    /\ config = [max_write_critique_iterations |-> DefaultIterations]
    /\ active_project_folder = "output/p"
    /\ manuscript = ScenarioChapters
    /\ active_agent = "writing"
    /\ result = NoResult
    /\ faults = 0
    /\ watch = 0
    /\ calls = 0
    /\ revisions = 0
    /\ args = ScenarioChapters
    /\ scene = 1
    /\ registry = <<>>
    /\ registered = <<>>
    /\ invoked = NoTool
    /\ Quiet

\* a registry right after ToolRegistry.__init__, in a workflow at its start
InitRegistry ==
    /\ state = [phase |-> "WRITING", current_chapter |-> 1,
                total_chapters |-> MaxChapters,
                chapters_completed |-> <<>>, chapters_approved |-> <<>>,
                chapter_critique_iterations |-> <<>>]
    /\ disk = state
    /\ config = [max_write_critique_iterations |-> DefaultIterations]
    /\ active_project_folder = "output/p"
    /\ manuscript = {}
    /\ active_agent = "writing"
    /\ result = NoResult
    /\ faults = 0
    /\ watch = 0
    /\ calls = 0
    /\ revisions = 0
    /\ args = ChapterArgs
    /\ Unscripted

\* ------------------------------------------------------- writing tools
NoProject == active_project_folder = "none"

\* the tail of a handler from its save_state(state) call on: s is the mutated
\* state, w the outcome of the write, ok the result the handler returns after
\* the save and failed what the caller sees when the save raises.
Commit(s, w, ok, failed) ==
    IF save_state_ok(w)
    THEN /\ state' = s
         /\ disk' = s
         /\ result' = [ok EXCEPT !.save = w]
    ELSE /\ state' = disk
         /\ disk' = disk
         /\ result' = [failed EXCEPT !.save = w]

\* GetChapterContextTool.execute(chapter_number); outline_exists is what
\* os.path.exists answers for planning/outline.md
GetChapterContext(n, outline_exists, io, w) ==
    /\ active_agent = "writing"
    /\ UNCHANGED <<config, active_project_folder, manuscript,
                   active_agent, watch, calls, revisions>>
    /\ IF NoProject
       THEN /\ result' = Failure("get_chapter_context", n, "no_project")
            /\ UNCHANGED <<state, disk>>
       ELSE IF ~outline_exists
       THEN /\ result' = Failure("get_chapter_context", n, "not_found")
            /\ UNCHANGED <<state, disk>>
       ELSE IF ~io
       THEN /\ result' = Failure("get_chapter_context", n, "io")
            /\ UNCHANGED <<state, disk>>
       ELSE LET its == state.chapter_critique_iterations
                s1 == [state EXCEPT
                         !.current_chapter = n,
                         !.chapter_critique_iterations =
                             IF n \in DOMAIN its THEN its ELSE Put(its, n, 0)]
            IN Commit(s1, w,
                      ToolResult("get_chapter_context", n, TRUE, "none",
                                 NoTransition, FALSE),
                      Failure("get_chapter_context", n, "persistence"))

\* WriteChapterTool.execute(chapter_number, content)
WriteChapter(n, io) ==
    /\ active_agent = "writing"
    /\ UNCHANGED <<state, disk, config, active_project_folder,
                   active_agent, watch, calls, revisions>>
    /\ IF NoProject
       THEN /\ result' = Failure("write_chapter", n, "no_project")
            /\ UNCHANGED manuscript
       ELSE IF io = "open_fails"
       THEN /\ result' = Failure("write_chapter", n, "io")
            /\ UNCHANGED manuscript
       ELSE IF io = "write_fails"
       THEN /\ manuscript' = manuscript \cup {n}
            /\ result' = Failure("write_chapter", n, "io")
       ELSE /\ manuscript' = manuscript \cup {n}
            /\ result' = ToolResult("write_chapter", n, TRUE, "none",
                                    NoTransition, FALSE)

\* a handler's update_phase(state, to) call: whether it returns, and the
\* state it then leaves
Transition(s, to) == [ok |-> update_phase_ok(s, to), state |-> update_phase(s, to)]

\* a handler assigning state.phase itself instead of calling update_phase
AssignPhase(s, to) == [ok |-> TRUE, state |-> [s EXCEPT !.phase = to]]

FinalizeAssignsPhase(s) == AssignPhase(s, "WRITE_CRITIQUE")

\* FinalizeChapterTool.execute: update_phase(state, Phase.WRITE_CRITIQUE)
FinalizeTransition(s) == Transition(s, "WRITE_CRITIQUE")

DraftAssumed(n) == TRUE

\* FinalizeChapterTool.execute: "Verify chapter exists", os.path.exists of
\* manuscript/chapter_NN.md
DraftExists(n) == n \in manuscript

\* FinalizeChapterTool.execute(chapter_number)
FinalizeChapter(n, w) ==
    /\ active_agent = "writing"
    /\ UNCHANGED <<config, active_project_folder, manuscript,
                   active_agent, watch, calls, revisions>>
    /\ IF NoProject
       THEN /\ result' = Failure("finalize_chapter", n, "no_project")
            /\ UNCHANGED <<state, disk>>
       ELSE IF ~DraftExists(n)
       THEN /\ result' = Failure("finalize_chapter", n, "not_found")
            /\ UNCHANGED <<state, disk>>
       ELSE IF ~FinalizeTransition(state).ok
       THEN /\ result' = Raised("finalize_chapter", n, "state_conflict")
            /\ UNCHANGED <<state, disk>>
       ELSE LET s1 == [FinalizeTransition(state).state
                         EXCEPT !.current_chapter = n]
            IN Commit(s1, w,
                      ToolResult("finalize_chapter", n, TRUE, "none",
                                 "WRITE_CRITIQUE", FALSE),
                      Raised("finalize_chapter", n, "persistence"))

\* ------------------------------------------------ write critique tools
\* CritiqueChapterTool.execute(chapter_number, critique_text)
CritiqueChapter(n, io, w) ==
    /\ active_agent = "write_critic"
    /\ Get(state.chapter_critique_iterations, n, 0) < MaxCount
    /\ UNCHANGED <<config, active_project_folder, manuscript,
                   active_agent, watch, calls, revisions>>
    /\ IF NoProject
       THEN /\ result' = Failure("critique_chapter", n, "no_project")
            /\ UNCHANGED <<state, disk>>
       ELSE LET its == state.chapter_critique_iterations
                version == IF n \in DOMAIN its THEN its[n] + 1 ELSE 1
                s1 == [state EXCEPT
                         !.chapter_critique_iterations = Put(its, n, version)]
            IN IF ~io
               THEN /\ state' = s1
                    /\ result' = Failure("critique_chapter", n, "io")
                    /\ UNCHANGED disk
               ELSE Commit(s1, w,
                           ToolResult("critique_chapter", n, TRUE, "none",
                                      NoTransition, FALSE),
                           Failure("critique_chapter", n, "persistence"))

MarkApprovedOnly(s, n) ==
    [s EXCEPT !.chapters_approved = AppendIfAbsent(@, n)]

\* ApproveChapterTool.execute: "Mark chapter as completed and approved"
MarkApproved(s, n) ==
    [s EXCEPT !.chapters_completed = AppendIfAbsent(@, n),
              !.chapters_approved = AppendIfAbsent(@, n)]

\* ApproveChapterTool.execute: "Check if novel is complete"
IsComplete(s) == Len(s.chapters_approved) >= s.total_chapters

ApproveAssignsPhase(s, to) == AssignPhase(s, to)

\* ApproveChapterTool.execute: update_phase(state, Phase.COMPLETE / WRITING)
ApproveTransition(s, to) == Transition(s, to)

ApproveSaveSwallowed(n) ==
    ToolResult("approve_chapter", n, TRUE, "none", NoTransition, FALSE)

\* ApproveChapterTool.execute: the except branch, reached when save_state raises
ApproveSaveFailed(n) == Failure("approve_chapter", n, "persistence")

\* ApproveChapterTool.execute(chapter_number, approval_notes)
ApproveChapter(n, io, w) ==
    /\ active_agent = "write_critic"
    /\ state.current_chapter < MaxCurrent
    /\ UNCHANGED <<config, active_project_folder, manuscript,
                   active_agent, watch, calls, revisions>>
    /\ IF NoProject
       THEN /\ result' = Failure("approve_chapter", n, "no_project")
            /\ UNCHANGED <<state, disk>>
       ELSE IF ~io
       THEN /\ result' = Failure("approve_chapter", n, "io")
            /\ UNCHANGED <<state, disk>>
       ELSE LET s1 == MarkApproved(state, n)
                is_complete == IsComplete(s1)
                s2 == IF is_complete THEN s1 ELSE increment_chapter(s1)
                to_phase == IF is_complete THEN "COMPLETE" ELSE "WRITING"
            IN IF ~ApproveTransition(s2, to_phase).ok
               THEN /\ state' = s2
                    /\ result' = Failure("approve_chapter", n, "state_conflict")
                    /\ UNCHANGED disk
               ELSE Commit(ApproveTransition(s2, to_phase).state, w,
                           ToolResult("approve_chapter", n, TRUE, "none",
                                      to_phase, FALSE),
                           ApproveSaveFailed(n))

GuardOffByOne(s, n) ==
    Get(s.chapter_critique_iterations, n, 0) > max_iterations

\* RequestRevisionTool.execute: "Check iteration limit"
GuardExhausted(s, n) ==
    Get(s.chapter_critique_iterations, n, 0) >= max_iterations

RevisionAssignsPhase(s) == AssignPhase(s, "WRITING")

\* RequestRevisionTool.execute: update_phase(state, Phase.WRITING)
RevisionTransition(s) == Transition(s, "WRITING")

RevisionResultNoTransition(n) ==
    ToolResult("request_revision", n, TRUE, "none", NoTransition, FALSE)

\* RequestRevisionTool.execute: the version index of the revision request
\* file it writes, chapter_NN_revision_request_v<version>.md
RevisionVersion(s, n) == Get(s.chapter_critique_iterations, n, 0)

\* RequestRevisionTool.execute: the dictionary returned on success, whose
\* iteration is the version of the file written
RevisionResult(n) ==
    [ToolResult("request_revision", n, TRUE, "none", "WRITING", FALSE)
       EXCEPT !.iteration = RevisionVersion(state, n)]

\* WritingAgent.get_initial_prompt: "Check if this is a revision"
IsRevision(s, n) ==
    /\ n \in DOMAIN s.chapter_critique_iterations
    /\ s.chapter_critique_iterations[n] > 0

\* WritingAgent.get_initial_prompt: the version index of the revision request
\* file it looks for, chapter_NN_revision_request_v<version-1>.md
RevisionLookedUp(s, n) == s.chapter_critique_iterations[n] - 1

\* RequestRevisionTool.execute(chapter_number, revision_notes)
RequestRevision(n, io, w) ==
    /\ active_agent = "write_critic"
    /\ n = watch => calls < MaxCalls /\ revisions < MaxCalls
    /\ UNCHANGED <<config, active_project_folder, manuscript,
                   active_agent, watch>>
    /\ calls' = IF n = watch THEN calls + 1 ELSE calls
    /\ IF NoProject
       THEN /\ result' = Failure("request_revision", n, "no_project")
            /\ UNCHANGED <<state, disk>>
       ELSE IF GuardExhausted(state, n)
       THEN /\ result' = ToolResult("request_revision", n, FALSE,
                                    "max_iterations", NoTransition, TRUE)
            /\ UNCHANGED <<state, disk>>
       ELSE IF ~io
       THEN /\ result' = Failure("request_revision", n, "io")
            /\ UNCHANGED <<state, disk>>
       ELSE IF ~RevisionTransition(state).ok
       THEN /\ result' = Failure("request_revision", n, "state_conflict")
            /\ UNCHANGED <<state, disk>>
       ELSE Commit(RevisionTransition(state).state, w,
                   RevisionResult(n),
                   Failure("request_revision", n, "persistence"))
    /\ revisions' = IF n = watch /\ result'.transition = "WRITING"
                    THEN revisions + 1 ELSE revisions

\* ------------------------------------------------------ orchestration
\* what a step of the workflow leaves alone: the script position and the
\* registry under observation
Others ==
    UNCHANGED <<snapshot, documents, caller, created, connections, lock,
                tasks, endpoint, first>>

Workflow ==
    /\ UNCHANGED <<args, scene, registry, registered, invoked>>
    /\ Others

\* control passes to the agent responsible for the current phase
Handoff ==
    /\ active_agent # AgentForPhase(state.phase)
    /\ active_agent' = AgentForPhase(state.phase)
    /\ UNCHANGED <<state, disk, config, active_project_folder,
                   manuscript, result, faults, watch, calls, revisions>>
    /\ Workflow

\* what the environment may do to the file and state accesses of one dispatch:
\* nothing, or (while the run has failures left) fail one of them
Env == IF faults > 0
       THEN {"ok", "no_outline", "open_fails", "write_fails",
             "save_retry", "save_fails"}
       ELSE {"ok"}

Faulty(e) == e # "ok"

\* the outcome of the dispatch's save_state call under environment e
SaveOf(e) ==
    CASE e = "save_fails" -> "fail"
      [] e = "save_retry" -> "retry_ok"
      [] OTHER -> "ok"

Spend(e) == faults' = IF Faulty(e) THEN faults - 1 ELSE faults

\* the dispatches of the active agent's tools, BaseAgent.execute_tool(name, ...)
get_chapter_context ==
    \E n \in args, e \in Env \ {"write_fails"} :
        /\ GetChapterContext(n, e # "no_outline", e # "open_fails", SaveOf(e))
        /\ Spend(e)
        /\ Workflow

write_chapter ==
    \E n \in args, e \in Env \ {"no_outline", "save_retry", "save_fails"} :
        /\ WriteChapter(n, e)
        /\ Spend(e)
        /\ Workflow

finalize_chapter ==
    \E n \in args, e \in Env \ {"no_outline", "open_fails", "write_fails"} :
        /\ FinalizeChapter(n, SaveOf(e))
        /\ Spend(e)
        /\ Workflow

critique_chapter ==
    \E n \in args, e \in Env \ {"no_outline", "write_fails"} :
        /\ CritiqueChapter(n, e # "open_fails", SaveOf(e))
        /\ Spend(e)
        /\ Workflow

approve_chapter ==
    \E n \in args, e \in Env \ {"no_outline", "write_fails"} :
        /\ ApproveChapter(n, e # "open_fails", SaveOf(e))
        /\ Spend(e)
        /\ Workflow

request_revision ==
    \E n \in args, e \in Env \ {"no_outline", "write_fails"} :
        /\ RequestRevision(n, e # "open_fails", SaveOf(e))
        /\ Spend(e)
        /\ Workflow

Next ==
    \/ get_chapter_context
    \/ write_chapter
    \/ finalize_chapter
    \/ critique_chapter
    \/ approve_chapter
    \/ request_revision
    \/ Handoff

Spec == Init /\ [][Next]_vars

SpecWatch == InitWatch /\ [][Next]_vars

SpecArgs == InitArgs /\ [][Next]_vars

SpecFaults == InitFaults /\ [][Next]_vars

\* the scripted calls: the next call of the script is dispatched, with no
\* failure of the environment, and the script moves on
Advance ==
    /\ scene' = scene + 1
    /\ UNCHANGED <<faults, args, registry, registered, invoked>>
    /\ Others

scripted_finalize_chapter ==
    \E n \in args :
        /\ Scripted("finalize_chapter", n)
        /\ FinalizeChapter(n, "ok")
        /\ Advance

scripted_request_revision ==
    \E n \in args :
        /\ Scripted("request_revision", n)
        /\ RequestRevision(n, TRUE, "ok")
        /\ Advance

scripted_approve_chapter ==
    \E n \in args :
        /\ Scripted("approve_chapter", n)
        /\ ApproveChapter(n, TRUE, "ok")
        /\ Advance

\* the scenario's calls in script order, between any calls of the tools the
\* script does not name and any hand-offs
NextScenario ==
    \/ scripted_finalize_chapter
    \/ scripted_request_revision
    \/ scripted_approve_chapter
    \/ get_chapter_context
    \/ write_chapter
    \/ critique_chapter
    \/ Handoff

SpecScenario == InitScenario /\ [][NextScenario]_vars

\* ToolRegistry.register(tool), as BaseAgent._register_tools calls it
register ==
    \E tool \in Tools :
        /\ Len(registered) < MaxRegistered
        /\ registry' = Register(registry, tool)
        /\ registered' = Append(registered, tool)
        /\ UNCHANGED <<state, disk, config, active_project_folder, manuscript,
                       active_agent, result, faults, watch, calls, revisions,
                       args, scene, invoked>>
        /\ Others

\* BaseAgent.execute_tool(tool_name) -> ToolRegistry.execute(name): get(name)
\* raises KeyError for a name that is not registered, and otherwise the
\* handler of the tool found runs (BaseTool.execute, abstract here: it
\* answers with a result and the workflow handlers above model what the
\* concrete tools do to the state)
execute_tool ==
    \E name \in DispatchNames :
        LET tool == Lookup(registry, name)
        IN /\ invoked' = tool
           /\ result' = IF tool = NoTool
                        THEN Raised(name, 0, "not_found")
                        ELSE ToolResult(name, 0, TRUE, "none",
                                        NoTransition, FALSE)
           /\ UNCHANGED <<state, disk, config, active_project_folder,
                          manuscript, active_agent, faults, watch, calls,
                          revisions, args, scene, registry, registered>>
           /\ Others

NextRegistry ==
    \/ register
    \/ execute_tool

SpecRegistry == InitRegistry /\ [][NextRegistry]_vars

\* ------------------------------------------------- persistence (spec)
\* the key under which a JSON object holds what a dict holds under the
\* int n: JSON object keys are strings
KeyOf(n) == ToString(n)

\* the chapter number a JSON object key stands for
IntOf(k) == CHOOSE n \in ChapterArgs : KeyOf(n) = k

\* save_state: the snapshot written for a NovelState, a JSON document in
\* which the phase is the name of the phase, the lists are arrays and the
\* iteration counters are an object keyed by the chapter numbers as strings
Encode(s) ==
    [exists |-> TRUE,
     phase |-> s.phase,
     current_chapter |-> s.current_chapter,
     total_chapters |-> s.total_chapters,
     chapters_completed |-> s.chapters_completed,
     chapters_approved |-> s.chapters_approved,
     chapter_critique_iterations |->
        [k \in {KeyOf(n) : n \in DOMAIN s.chapter_critique_iterations}
           |-> s.chapter_critique_iterations[IntOf(k)]]]

\* a load that reads the scalar fields and the lists and starts with no
\* iteration counters
DecodeWithoutCounters(j) ==
    [phase |-> j.phase,
     current_chapter |-> j.current_chapter,
     total_chapters |-> j.total_chapters,
     chapters_completed |-> j.chapters_completed,
     chapters_approved |-> j.chapters_approved,
     chapter_critique_iterations |-> <<>>]

\* load: the NovelState read back from a snapshot, with the iteration
\* counters under the chapter numbers again
Decode(j) ==
    [phase |-> j.phase,
     current_chapter |-> j.current_chapter,
     total_chapters |-> j.total_chapters,
     chapters_completed |-> j.chapters_completed,
     chapters_approved |-> j.chapters_approved,
     chapter_critique_iterations |->
        [n \in {IntOf(k) : k \in DOMAIN j.chapter_critique_iterations}
           |-> j.chapter_critique_iterations[KeyOf(n)]]]

\* lists of chapter numbers without repetition
ChapterLists ==
    {q \in UNION {[1..k -> ChapterArgs] : k \in 0..MaxChapters} :
        \A i, j \in DOMAIN q : i # j => q[i] # q[j]}

\* the states a workflow may be in when it is saved
SavedStates ==
    [phase : Phase,
     current_chapter : ChapterArgs,
     total_chapters : {MaxChapters},
     chapters_completed : ChapterLists,
     chapters_approved : ChapterLists,
     chapter_critique_iterations :
        UNION {[d -> 0..MaxCount] : d \in SUBSET ChapterArgs}]

InitResume ==
    /\ state \in {s \in SavedStates :
                    s.chapters_completed = s.chapters_approved}
    /\ disk = state
    /\ config = [max_write_critique_iterations |-> DefaultIterations]
    /\ active_project_folder = "output/p"
    /\ manuscript = {}
    /\ active_agent = AgentForPhase(state.phase)
    /\ result = NoResult
    /\ faults = 0
    /\ watch = 0
    /\ calls = 0
    /\ revisions = 0
    /\ args = ChapterArgs
    /\ Unscripted

Persistence ==
    UNCHANGED <<config, active_project_folder, manuscript, active_agent,
                faults, watch, calls, revisions, args, scene, registry,
                registered, invoked, documents, caller, created, connections,
                lock, tasks, endpoint, first>>

\* save_state succeeding: the snapshot of the state in memory is on disk
persist ==
    /\ snapshot' = Encode(state)
    /\ disk' = state
    /\ result' = ToolResult("save_state", 0, TRUE, "none", NoTransition,
                            FALSE)
    /\ UNCHANGED state
    /\ Persistence

\* resume: a new process loads the snapshot of the project
reload ==
    /\ snapshot.exists
    /\ state' = Decode(snapshot)
    /\ result' = ToolResult("load_state", 0, TRUE, "none", NoTransition,
                            FALSE)
    /\ UNCHANGED <<disk, snapshot>>
    /\ Persistence

NextResume ==
    \/ persist
    \/ reload

SpecResume == InitResume /\ [][NextResume]_vars

\* ---------------------------------------------------- project isolation
\* CreateProjectTool.execute for the project p: the folder of p, existing or
\* created, becomes the active project folder of the process; a makedirs
\* that fails for the folder leaves the active folder alone, one that fails
\* for a subdirectory comes after the assignment
CreateIo == {"ok", "mkdir_fails", "subdir_fails"}

CreateProject(p, io) ==
    /\ IF io = "mkdir_fails"
       THEN /\ result' = Failure("create_project", 0, "io")
            /\ UNCHANGED active_project_folder
       ELSE /\ active_project_folder' = FolderOf(p)
            /\ result' = IF io = "subdir_fails"
                         THEN Failure("create_project", 0, "io")
                         ELSE ToolResult("create_project", 0, TRUE, "none",
                                         NoTransition, FALSE)
    /\ UNCHANGED documents

\* WriteChapterTool.execute as dispatched by a workflow: the chapter file
\* goes to the folder get_active_project_folder() returns
WriteChapterFile(n) ==
    /\ IF NoProject
       THEN /\ result' = Failure("write_chapter", n, "no_project")
            /\ UNCHANGED documents
       ELSE /\ documents' = [documents EXCEPT
                               ![active_project_folder] = @ \cup {n}]
            /\ result' = ToolResult("write_chapter", n, TRUE, "none",
                                    NoTransition, FALSE)
    /\ UNCHANGED active_project_folder

InitProjects ==
    /\ state = [phase |-> "WRITING", current_chapter |-> 1,
                total_chapters |-> MaxChapters,
                chapters_completed |-> <<>>, chapters_approved |-> <<>>,
                chapter_critique_iterations |-> <<>>]
    /\ disk = state
    /\ config = [max_write_critique_iterations |-> DefaultIterations]
    /\ active_project_folder = "none"
    /\ manuscript = {}
    /\ active_agent = "writing"
    /\ result = NoResult
    /\ faults = 0
    /\ watch = 0
    /\ calls = 0
    /\ revisions = 0
    /\ args = ChapterArgs
    /\ Unscripted

Isolation ==
    UNCHANGED <<state, disk, config, manuscript, active_agent, faults, watch,
                calls, revisions, args, scene, registry, registered, invoked,
                snapshot, connections, lock, tasks, endpoint, first>>

\* the workflow of project p dispatches create_project
project_create_project ==
    \E p \in Projects, io \in CreateIo :
        /\ CreateProject(p, io)
        /\ caller' = p
        /\ created' = IF io = "mkdir_fails" THEN created
                      ELSE created \cup {p}
        /\ Isolation

\* the workflow of project p dispatches write_chapter(n)
project_write_chapter ==
    \E p \in Projects, n \in args :
        /\ WriteChapterFile(n)
        /\ caller' = p
        /\ UNCHANGED created
        /\ Isolation

NextProjects ==
    \/ project_create_project
    \/ project_write_chapter

SpecProjects == InitProjects /\ [][NextProjects]_vars

\* ------------------------------------------------------ websocket hub
\* WebSocketManager runs on one asyncio loop: a coroutine runs without
\* interruption from one await to the next, so each action below is the code
\* between two suspension points of one coroutine.  A coroutine is suspended
\* in "waiting" (connect or disconnect awaiting the lock), "removing" (the
\* disconnect called by broadcast awaiting the lock), "acking" (connect in
\* the send of the acknowledgement) or "sending" (broadcast in a send).  The
\* order in which suspended acquirers get the lock is left open.

\* the sockets registered for a project: self.connections[project_id], and
\* none for a project without an entry
Audience(conns, p) == IF p \notin DOMAIN conns THEN {} ELSE conns[p]

\* connect: the entry is created when absent and the socket added to it
Add(conns, p, w) == Put(conns, p, Audience(conns, p) \cup {w})

\* a disconnect that leaves the entry of an emptied set in place
DiscardKeepsEntry(conns, p, w) ==
    IF p \notin DOMAIN conns THEN conns
    ELSE [conns EXCEPT ![p] = @ \ {w}]

\* disconnect: the socket is discarded and an emptied entry deleted
Discard(conns, p, w) ==
    IF p \notin DOMAIN conns THEN conns
    ELSE IF conns[p] \ {w} = {}
    THEN [q \in DOMAIN conns \ {p} |-> conns[q]]
    ELSE [conns EXCEPT ![p] = @ \ {w}]

\* a copy that falls back on every registered socket
CopyOfAll(conns, p) ==
    IF p \notin DOMAIN conns THEN UNION {conns[q] : q \in DOMAIN conns}
    ELSE conns[p]

\* broadcast: nothing to deliver to without an entry for the project, and
\* otherwise the copy of its set taken before the loop
CopyOf(conns, p) == IF p \notin DOMAIN conns THEN {} ELSE conns[p]

\* a stamping that overwrites the timestamp of the caller
StampAlways(m, now) == [type |-> m.type, timestamp |-> now]

\* broadcast: "Add timestamp if not present"
Stamp(m, now) ==
    IF "timestamp" \in DOMAIN m THEN m
    ELSE [type |-> m.type, timestamp |-> now]

\* a delivery loop that iterates over the live set
RemainingLive(t) == Audience(connections, t.project) \ Range(t.attempted)

\* broadcast: the sockets of the copy the loop has not come to yet
Remaining(t) == t.copy \ Range(t.attempted)

\* a send whose exception leaves the delivery loop
SendFailedAborts(t) ==
    [t EXCEPT !.failed = @ \cup {t.ws}, !.pc = "done", !.raised = TRUE]

\* broadcast: the except branch, which goes on to disconnect the socket
SendFailed(t) == [t EXCEPT !.failed = @ \cup {t.ws}, !.pc = "removing"]

\* the lock can be taken without suspending: it is free and nobody queues
LockFree ==
    /\ lock = 0
    /\ \A i \in Slots : tasks[i].pc \notin {"waiting", "removing"}

Free(i) == tasks[i].pc \in {"idle", "done"}

Call(op, p, w) ==
    [IdleTask EXCEPT !.op = op, !.project = p, !.ws = w]

HubFrame ==
    UNCHANGED <<state, disk, config, active_project_folder, manuscript,
                active_agent, result, faults, watch, calls, revisions, args,
                scene, registry, registered, invoked, snapshot, documents,
                caller, created>>

\* a call of the manager that is not made by a websocket_endpoint
ManagerFrame ==
    /\ HubFrame
    /\ UNCHANGED <<endpoint, first>>

\* connect from "async with self.lock" to the await of the send
ConnectLocked(i, t) ==
    /\ lock' = i
    /\ connections' = Add(connections, t.project, t.ws)
    /\ tasks' = [tasks EXCEPT ![i] = [t EXCEPT !.pc = "acking"]]

\* connect is called: it goes on with the lock or queues for it
ConnectCalled(i, p, w) ==
    IF LockFree
    THEN ConnectLocked(i, Call("connect", p, w))
    ELSE /\ tasks' = [tasks EXCEPT
                        ![i] = [Call("connect", p, w) EXCEPT !.pc = "waiting"]]
         /\ UNCHANGED <<connections, lock>>

connect ==
    \E i \in Slots, p \in Projects, w \in Subscribers :
        /\ Free(i)
        /\ ConnectCalled(i, p, w)
        /\ ManagerFrame

connect_acquire ==
    \E i \in Slots :
        /\ tasks[i].op = "connect"
        /\ tasks[i].pc = "waiting"
        /\ lock = 0
        /\ ConnectLocked(i, tasks[i])
        /\ ManagerFrame

\* the send of the acknowledgement returns or raises; either way the lock
\* is released on leaving the with block, and an exception reaches the caller
AckReturned(i, ok) ==
    /\ lock' = 0
    /\ tasks' = [tasks EXCEPT
                   ![i] = [@ EXCEPT
                             !.pc = "done",
                             !.attempted = <<tasks[i].ws>>,
                             !.delivered = IF ok THEN {tasks[i].ws} ELSE {},
                             !.failed = IF ok THEN {} ELSE {tasks[i].ws},
                             !.raised = ~ok]]
    /\ UNCHANGED connections

connect_send ==
    \E i \in Slots, ok \in BOOLEAN :
        /\ tasks[i].pc = "acking"
        /\ AckReturned(i, ok)
        /\ ManagerFrame

\* disconnect with the lock: nothing is awaited inside the with block
DisconnectLocked(i, t) ==
    /\ connections' = Discard(connections, t.project, t.ws)
    /\ tasks' = [tasks EXCEPT ![i] = [t EXCEPT !.pc = "done"]]
    /\ UNCHANGED lock

\* disconnect is called: it goes on with the lock or queues for it
DisconnectCalled(i, p, w) ==
    IF LockFree
    THEN DisconnectLocked(i, Call("disconnect", p, w))
    ELSE /\ tasks' = [tasks EXCEPT
                        ![i] = [Call("disconnect", p, w)
                                  EXCEPT !.pc = "waiting"]]
         /\ UNCHANGED <<connections, lock>>

disconnect ==
    \E i \in Slots, p \in Projects, w \in Subscribers :
        /\ Free(i)
        /\ DisconnectCalled(i, p, w)
        /\ ManagerFrame

disconnect_acquire ==
    \E i \in Slots :
        /\ tasks[i].op = "disconnect"
        /\ tasks[i].pc = "waiting"
        /\ lock = 0
        /\ DisconnectLocked(i, tasks[i])
        /\ ManagerFrame

\* the delivery loop of broadcast: the next socket of the iteration is sent
\* the serialized message, or the loop is over and broadcast returns
Deliver(i, t) ==
    \/ /\ Remaining(t) = {}
       /\ tasks' = [tasks EXCEPT ![i] = [t EXCEPT !.pc = "done", !.ws = 0]]
    \/ \E w \in Remaining(t) :
          tasks' = [tasks EXCEPT
                      ![i] = [t EXCEPT !.pc = "sending", !.ws = w,
                                       !.attempted = Append(@, w),
                                       !.sent = @ \cup {<<w, t.message>>}]]

broadcast ==
    \E i \in Slots, p \in Projects, m \in Messages, now \in Times :
        /\ Free(i)
        /\ Deliver(i, [Call("broadcast", p, 0)
                         EXCEPT !.copy = CopyOf(connections, p),
                                !.given = m,
                                !.message = IF p \notin DOMAIN connections
                                            THEN m ELSE Stamp(m, now)])
        /\ UNCHANGED <<connections, lock>>
        /\ ManagerFrame

\* the disconnect called from the except branch, with the lock, and the
\* loop going on after it
RemoveFailed(i, t) ==
    /\ connections' = Discard(connections, t.project, t.ws)
    /\ Deliver(i, t)
    /\ UNCHANGED lock

\* a send of broadcast returns or raises
SendReturned(i, ok) ==
    IF ok
    THEN /\ Deliver(i, [tasks[i] EXCEPT !.delivered = @ \cup {tasks[i].ws}])
         /\ UNCHANGED <<connections, lock>>
    ELSE LET t == SendFailed(tasks[i])
         IN IF t.pc = "removing" /\ LockFree
            THEN RemoveFailed(i, t)
            ELSE /\ tasks' = [tasks EXCEPT ![i] = t]
                 /\ UNCHANGED <<connections, lock>>

broadcast_send ==
    \E i \in Slots, ok \in BOOLEAN :
        /\ tasks[i].pc = "sending"
        /\ SendReturned(i, ok)
        /\ ManagerFrame

broadcast_acquire ==
    \E i \in Slots :
        /\ tasks[i].pc = "removing"
        /\ lock = 0
        /\ RemoveFailed(i, tasks[i])
        /\ ManagerFrame

InitHub ==
    /\ state = [phase |-> "WRITING", current_chapter |-> 1,
                total_chapters |-> MaxChapters,
                chapters_completed |-> <<>>, chapters_approved |-> <<>>,
                chapter_critique_iterations |-> <<>>]
    /\ disk = state
    /\ config = [max_write_critique_iterations |-> DefaultIterations]
    /\ active_project_folder = "output/p"
    /\ manuscript = {}
    /\ active_agent = "writing"
    /\ result = NoResult
    /\ faults = 0
    /\ watch = 0
    /\ calls = 0
    /\ revisions = 0
    /\ args = ChapterArgs
    /\ Unscripted

NextHub ==
    \/ connect
    \/ connect_acquire
    \/ connect_send
    \/ disconnect
    \/ disconnect_acquire
    \/ broadcast
    \/ broadcast_send
    \/ broadcast_acquire

SpecHub == InitHub /\ [][NextHub]_vars

\* ------------------------------------------------- websocket endpoint
\* websocket_endpoint(websocket, project_id), one call per socket: accept,
\* ws_manager.connect outside the try, the receive loop inside it (a ping is
\* answered on the socket itself, after connect has returned), and
\* ws_manager.disconnect in the finally.  A socket has received a message
\* when the send of it has returned.

\* the first message a socket has received after one more has arrived
Received(w, kind) == IF first[w] = "none" THEN kind ELSE first[w]

\* the endpoint is called for a new socket: accept raises, or connect is
\* called
endpoint_connect ==
    \E i \in Slots, p \in Projects, w \in Subscribers, accepted \in BOOLEAN :
        /\ Free(i)
        /\ endpoint[w].pc = "new"
        /\ IF accepted
           THEN /\ ConnectCalled(i, p, w)
                /\ endpoint' = [endpoint EXCEPT
                                  ![w] = [pc |-> "connecting", project |-> p]]
           ELSE /\ endpoint' = [endpoint EXCEPT
                                  ![w] = [pc |-> "raised", project |-> p]]
                /\ UNCHANGED <<connections, lock, tasks>>
        /\ UNCHANGED first
        /\ HubFrame

\* connect returns into the receive loop, or its exception leaves the
\* endpoint, which has not entered its try yet
endpoint_connected ==
    \E i \in Slots, ok \in BOOLEAN :
        /\ tasks[i].pc = "acking"
        /\ endpoint[tasks[i].ws].pc = "connecting"
        /\ AckReturned(i, ok)
        /\ endpoint' = [endpoint EXCEPT
                          ![tasks[i].ws].pc = IF ok THEN "open" ELSE "raised"]
        /\ first' = IF ok
                    THEN [first EXCEPT
                            ![tasks[i].ws] = Received(tasks[i].ws, "connected")]
                    ELSE first
        /\ HubFrame

\* the receive of the loop raises (the client has gone, or another error)
\* and the finally calls disconnect
endpoint_disconnect ==
    \E i \in Slots, w \in Subscribers :
        /\ Free(i)
        /\ endpoint[w].pc = "open"
        /\ DisconnectCalled(i, endpoint[w].project, w)
        /\ endpoint' = [endpoint EXCEPT
                          ![w].pc = IF LockFree THEN "closed"
                                    ELSE "disconnecting"]
        /\ UNCHANGED first
        /\ HubFrame

\* the disconnect of the finally gets the lock and the endpoint returns
endpoint_disconnected ==
    \E i \in Slots :
        /\ tasks[i].op = "disconnect"
        /\ tasks[i].pc = "waiting"
        /\ lock = 0
        /\ endpoint[tasks[i].ws].pc = "disconnecting"
        /\ DisconnectLocked(i, tasks[i])
        /\ endpoint' = [endpoint EXCEPT ![tasks[i].ws].pc = "closed"]
        /\ UNCHANGED first
        /\ HubFrame

\* a send of a broadcast returns or raises, seen from the socket
endpoint_receive ==
    \E i \in Slots, ok \in BOOLEAN :
        /\ tasks[i].pc = "sending"
        /\ SendReturned(i, ok)
        /\ first' = IF ok
                    THEN [first EXCEPT
                            ![tasks[i].ws] = Received(tasks[i].ws, "message")]
                    ELSE first
        /\ UNCHANGED endpoint
        /\ HubFrame

NextEndpoint ==
    \/ endpoint_connect
    \/ connect_acquire
    \/ endpoint_connected
    \/ endpoint_disconnect
    \/ endpoint_disconnected
    \/ broadcast
    \/ endpoint_receive
    \/ broadcast_acquire

SpecEndpoint == InitHub /\ [][NextEndpoint]_vars

\* ---------------------------------------------------------- properties
\* state.chapter_critique_iterations.get(n, 0)
Counter(n) == Get(state.chapter_critique_iterations, n, 0)

Configured == config.max_write_critique_iterations

Approved(n) == n \in Range(state.chapters_approved)

Min(a, b) == IF a <= b THEN a ELSE b

\* the step is a dispatch of the named tool for chapter n (a hand-off, the
\* only other step, changes active_agent and no dispatch does)
Dispatch(tool, n) ==
    /\ active_agent' = active_agent
    /\ result'.tool = tool
    /\ result'.chapter_number = n

FinalizeStep(n) == Dispatch("finalize_chapter", n)
ApproveStep(n) == Dispatch("approve_chapter", n)
RevisionStep(n) == Dispatch("request_revision", n)

\* C1: the revision loop of a chapter terminates: request_revision(n) returns
\* a WRITING transition at most max_write_critique_iterations times.
C1_RevisionLoopBounded ==
    watch # 0 => revisions <= Configured

\* C2: among the request_revision(n) calls made while n is unapproved, call
\* number max_write_critique_iterations + 1 is the first to return
\* auto_approve = true.
C2_FirstAutoApproveCall ==
    [][(watch # 0 /\ calls' = calls + 1 /\ ~Approved(watch))
         => /\ calls' <= Configured => ~result'.auto_approve
            /\ calls' = Configured + 1 => result'.auto_approve]_vars

\* C3: after N request_revision(n) calls with n unapproved, the iteration
\* counter of n is min(N, max_write_critique_iterations).
C3_CounterIsMinOfCalls ==
    (watch # 0 /\ ~Approved(watch))
        => Counter(watch) = Min(calls, Configured)

\* C4: the iteration counter of every chapter is at most the configured
\* maximum number of write-critique iterations.
C4_CounterBounded ==
    \A n \in DOMAIN state.chapter_critique_iterations :
        state.chapter_critique_iterations[n] <= Configured

\* C5: with the guard exhausted for chapter n, request_revision(n) returns
\* auto_approve = true and no transition and changes neither the state
\* (phase, current_chapter, iteration counters) nor its saved snapshot.
C5_ExhaustedGuardShortCircuits ==
    [][\A n \in ChapterArgs :
         (RevisionStep(n) /\ Counter(n) >= max_iterations)
            => /\ result'.auto_approve
               /\ result'.transition = NoTransition
               /\ state' = state
               /\ disk' = disk]_vars

\* C5 witness: request_revision has just answered with an auto-approval.
C5_Witness ==
    /\ result.tool = "request_revision"
    /\ result.auto_approve
    /\ Counter(result.chapter_number) >= max_iterations

\* C6: request_revision(n) auto-approves exactly when the counter of n has
\* reached the configured max_write_critique_iterations.
C6_GuardUsesConfiguredBound ==
    [][\A n \in ChapterArgs :
         RevisionStep(n) => (result'.auto_approve <=> Counter(n) >= Configured)]_vars

\* C7: chapters_approved is a subset of chapters_completed after every dispatch.
C7_ApprovedSubsetOfCompleted ==
    Range(state.chapters_approved) \subseteq Range(state.chapters_completed)

\* C7 witness: approve_chapter has approved a chapter.
C7_Witness ==
    /\ result.tool = "approve_chapter"
    /\ result.success
    /\ result.chapter_number \in Range(state.chapters_approved)

\* C8: phase is COMPLETE exactly when the number of approved chapters equals
\* total_chapters.
C8_CompleteIffAllApproved ==
    (state.phase = "COMPLETE")
        <=> (Len(state.chapters_approved) = state.total_chapters)

\* the phases from which the trigger has no edge in the allowed-edge table
FinalizeOffTable == state.phase # "WRITING"
ApproveOffTable == state.phase # "WRITE_CRITIQUE"
RevisionOffTable == state.phase # "WRITE_CRITIQUE"

\* C9 as stated: a finalize_chapter, request_revision or approve_chapter
\* dispatched in a phase with no edge for it reports a state conflict and
\* leaves phase unchanged.
C9_OffTableIsStateConflict ==
    [][\A n \in ChapterArgs :
         \/ FinalizeStep(n) /\ FinalizeOffTable
         \/ ApproveStep(n) /\ ApproveOffTable
         \/ RevisionStep(n) /\ RevisionOffTable
         => /\ result'.error = "state_conflict"
            /\ state'.phase = state.phase]_vars

\* C9 amended: such a dispatch fails without a transition and leaves phase
\* unchanged; the failure is the state conflict whenever the handler gets as
\* far as applying the transition, and otherwise the failure of the earlier
\* step (no project folder, no draft, exhausted guard, file write).
C9_OffTableDispatchFails ==
    [][\A n \in ChapterArgs :
         /\ \/ FinalizeStep(n) /\ FinalizeOffTable
            \/ ApproveStep(n) /\ ApproveOffTable
            \/ RevisionStep(n) /\ RevisionOffTable
            => /\ state'.phase = state.phase
               /\ ~result'.success
               /\ result'.transition = NoTransition
               /\ result'.error \in {"no_project", "not_found", "max_iterations",
                                     "io", "state_conflict"}
         /\ (FinalizeStep(n) /\ FinalizeOffTable /\ ~NoProject /\ n \in manuscript)
            => result'.error = "state_conflict"
         /\ (ApproveStep(n) /\ ApproveOffTable /\ ~NoProject)
            => result'.error \in {"io", "state_conflict"}
         /\ (RevisionStep(n) /\ RevisionOffTable /\ ~NoProject
               /\ Counter(n) < max_iterations)
            => result'.error \in {"io", "state_conflict"}]_vars

\* C9 witness: a handler dispatched off the table was refused the transition.
C9_Witness ==
    /\ result.tool \in {"finalize_chapter", "approve_chapter", "request_revision"}
    /\ result.error = "state_conflict"
    /\ ~result.success

\* C10: once phase is COMPLETE no dispatch changes it.
C10_CompleteIsTerminal ==
    [][state.phase = "COMPLETE" => state'.phase = "COMPLETE"]_vars

\* C10 witness: a tool was dispatched in COMPLETE and refused.
C10_Witness ==
    /\ state.phase = "COMPLETE"
    /\ result.tool \in {"approve_chapter", "request_revision"}
    /\ result.error = "state_conflict"

\* C11: a successful request_revision(n) issued in WRITE_CRITIQUE with the
\* guard not exhausted moves phase to WRITING, leaves current_chapter
\* unchanged and increments the iteration counter of n by exactly one.
C11_RevisionIncrementsCounter ==
    [][\A n \in ChapterArgs :
         (RevisionStep(n) /\ state.phase = "WRITE_CRITIQUE"
            /\ ~GuardExhausted(state, n) /\ result'.success)
            => /\ state'.phase = "WRITING"
               /\ state'.current_chapter = state.current_chapter
               /\ Get(state'.chapter_critique_iterations, n, 0)
                    = Counter(n) + 1]_vars

\* C13: 1 <= current_chapter <= total_chapters in every reachable state,
\* whatever chapter_number arguments the tools were given.
C13_CurrentChapterInRange ==
    /\ 1 <= state.current_chapter
    /\ state.current_chapter <= state.total_chapters

\* the phases of the chapter cycle
Cycling(p) == p \in {"WRITING", "WRITE_CRITIQUE"}

\* C14: current_chapter never decreases over a tool dispatch while the phase
\* cycles between WRITING and WRITE_CRITIQUE.
C14_CurrentChapterMonotonic ==
    [][(Cycling(state.phase) /\ Cycling(state'.phase))
         => state'.current_chapter >= state.current_chapter]_vars

\* C19: after every tool dispatch, successful or failed, the in-memory state
\* equals the last successfully persisted snapshot.
C19_StateEqualsSnapshot ==
    state = disk

\* the chapters of the plan that are not approved in state s
Outstanding(s) == (1..s.total_chapters) \ Range(s.chapters_approved)

\* C12: a successful approve_chapter issued in WRITE_CRITIQUE moves phase to
\* WRITING and adds one to current_chapter while chapters of the plan remain
\* unapproved, and moves phase to COMPLETE without changing current_chapter
\* when it approves the last outstanding chapter.
C12_ApproveAdvancesOrCompletes ==
    [][\A n \in args :
         (ApproveStep(n) /\ state.phase = "WRITE_CRITIQUE" /\ result'.success)
            => /\ Outstanding(state') # {}
                    => /\ state'.phase = "WRITING"
                       /\ state'.current_chapter = state.current_chapter + 1
               /\ (Outstanding(state) # {} /\ Outstanding(state') = {})
                    => /\ state'.phase = "COMPLETE"
                       /\ state'.current_chapter = state.current_chapter]_vars

\* the scripted call number k has just been dispatched
Played(k) == scene = k /\ scene' = k + 1

\* C15: the scenario with three chapters and an iteration limit of 2:
\* finalize_chapter(1) puts the phase in WRITE_CRITIQUE, the second
\* request_revision(1) returns auto_approve = true, approve_chapter(1) yields
\* phase WRITING with current_chapter = 2, and approve_chapter(3) at the end
\* leaves chapters_approved = {1, 2, 3} and moves the phase to COMPLETE.
C15_Scenario ==
    [][/\ Played(1) => state'.phase = "WRITE_CRITIQUE"
       /\ Played(3) => result'.auto_approve
       /\ Played(4) => /\ state'.phase = "WRITING"
                       /\ state'.current_chapter = 2
       /\ Played(8) => /\ Range(state'.chapters_approved) = ScenarioChapters
                       /\ state.phase # "COMPLETE"
                       /\ state'.phase = "COMPLETE"]_vars

NamesRegistered(log) == {log[i].name : i \in 1..Len(log)}

\* the tool of the latest register call under a name
RECURSIVE LastRegistered(_, _)
LastRegistered(log, name) ==
    IF log = <<>> THEN NoTool
    ELSE IF log[Len(log)].name = name THEN log[Len(log)]
    ELSE LastRegistered(SubSeq(log, 1, Len(log) - 1), name)

\* the step is a dispatch of the name through the registry
ExecuteStep(name) == registered' = registered /\ result'.tool = name

\* the step is a register call
RegisterStep == registered' # registered

C18_LastRegisteredWins ==
    [][/\ \A name \in DispatchNames :
            (ExecuteStep(name) /\ name \in NamesRegistered(registered))
               => invoked' = LastRegistered(registered, name)
       /\ RegisterStep
            => \A name \in ToolNames \ {registered'[Len(registered')].name} :
                  Lookup(registry', name) = Lookup(registry, name)]_vars

\* C18 witness: a dispatch ran the tool that replaced an earlier one
\* registered under the same name.
C18_Witness ==
    /\ invoked # NoTool
    /\ invoked = LastRegistered(registered, invoked.name)
    /\ \E i \in 1..Len(registered) :
         /\ registered[i].name = invoked.name
         /\ registered[i] # invoked

\* C30: finalize_chapter(n) for a chapter without a draft fails without a
\* transition and leaves phase and current_chapter unchanged; a
\* finalize_chapter that moves the workflow to WRITE_CRITIQUE is one for a
\* chapter that has a draft.
C30_FinalizeNeedsDraft ==
    [][\A n \in args :
         FinalizeStep(n)
            => /\ n \notin manuscript
                    => /\ ~result'.success
                       /\ result'.transition = NoTransition
                       /\ state'.phase = state.phase
                       /\ state'.current_chapter = state.current_chapter
               /\ (state.phase # "WRITE_CRITIQUE"
                     /\ state'.phase = "WRITE_CRITIQUE")
                    => n \in manuscript]_vars

\* C30 witness: finalize_chapter has been refused for a missing draft while a
\* project folder is active.
C30_Witness ==
    /\ result.tool = "finalize_chapter"
    /\ result.error = "not_found"
    /\ result.chapter_number \notin manuscript
    /\ state.phase = "WRITING"

C29_ProjectIsolation ==
    [][\A p \in Projects :
         (caller' = p /\ p \in created)
            => \A f \in Folders \ {FolderOf(p)} :
                  documents'[f] = documents[f]]_vars

\* the coroutine of slot i starts a broadcast for project p in this step
BroadcastCalled(i, p) ==
    /\ Free(i)
    /\ tasks'[i] # tasks[i]
    /\ tasks'[i].op = "broadcast"
    /\ tasks'[i].project = p

\* a broadcast that has returned to its caller
Returned(i) == tasks[i].op = "broadcast" /\ tasks[i].pc = "done"

\* C22: a broadcast for a project without an entry returns at once without
\* an error, starts no send to any socket of any project and leaves
\* connections, with no entry for the project, as it was.
C22_BroadcastWithoutChannel ==
    [][\A i \in Slots, p \in Projects :
         (BroadcastCalled(i, p) /\ p \notin DOMAIN connections)
            => /\ tasks'[i].pc = "done"
               /\ ~tasks'[i].raised
               /\ tasks'[i].attempted = <<>>
               /\ tasks'[i].delivered = {}
               /\ connections' = connections
               /\ p \notin DOMAIN connections'
               /\ \A j \in Slots \ {i} : tasks'[j] = tasks[j]]_vars

C22_Witness ==
    \E i \in Slots :
        /\ Returned(i)
        /\ tasks[i].project \notin DOMAIN connections
        /\ tasks[i].copy = {}
        /\ tasks[i].attempted = <<>>
        /\ connections # <<>>

\* the broadcast of slot i comes back from the disconnect of a socket whose
\* send failed in this step
RemovalStep(i) ==
    /\ tasks[i].op = "broadcast"
    /\ \/ tasks[i].pc = "removing" /\ tasks'[i].pc # "removing"
       \/ /\ tasks[i].pc = "sending"
          /\ tasks'[i].failed # tasks[i].failed
          /\ tasks'[i].pc # "removing"

\* the broadcast of slot i is called or resumed in this step
BroadcastStep(i) ==
    /\ tasks'[i] # tasks[i]
    /\ IF Free(i) THEN tasks'[i].op = "broadcast"
       ELSE tasks[i].op = "broadcast"

\* C23: a broadcast that has returned raised nothing and delivered to every
\* socket of its copy whose send did not fail, so with one failing socket
\* among N to the other N-1, wherever in the order the failure fell; the
\* step in which it handles a failed send removes that socket from the set
\* of the project and no other socket from any set, and its other steps
\* leave connections alone.
C23_FailedSendIsolated ==
    [][\A i \in Slots :
         /\ (tasks'[i].op = "broadcast" /\ tasks'[i].pc = "done")
               => /\ ~tasks'[i].raised
                  /\ tasks'[i].delivered = tasks'[i].copy \ tasks'[i].failed
         /\ RemovalStep(i)
               => \A q \in Projects, w \in Subscribers :
                     w \in Audience(connections', q)
                        <=> /\ w \in Audience(connections, q)
                            /\ ~(q = tasks[i].project /\ w = tasks[i].ws)
         /\ (BroadcastStep(i) /\ ~RemovalStep(i))
               => connections' = connections]_vars

\* the failing socket was the first of the delivery order
C23_Witness ==
    \E i \in Slots :
        /\ Returned(i)
        /\ Len(tasks[i].attempted) = MaxSubscribers
        /\ tasks[i].failed = {tasks[i].attempted[1]}
        /\ tasks[i].delivered = tasks[i].copy \ tasks[i].failed
        /\ tasks[i].attempted[1] \notin Audience(connections, tasks[i].project)

\* C24: a broadcast attempts each socket of the copy it took at most once
\* and no other socket, has attempted all of them when it returns, and
\* raises nothing, whatever connects or disconnects while it is suspended.
C24_SnapshotDelivery ==
    \A i \in Slots :
        tasks[i].op = "broadcast"
           => /\ Range(tasks[i].attempted) \subseteq tasks[i].copy
              /\ Cardinality(Range(tasks[i].attempted))
                    = Len(tasks[i].attempted)
              /\ ~tasks[i].raised
              /\ tasks[i].pc = "done"
                    => Range(tasks[i].attempted) = tasks[i].copy

\* a broadcast in its last send while a socket that connected after the
\* copy was taken is in the live set
C24_Witness ==
    \E i \in Slots :
        /\ tasks[i].op = "broadcast"
        /\ tasks[i].pc = "sending"
        /\ Range(tasks[i].attempted) = tasks[i].copy
        /\ Audience(connections, tasks[i].project) \ tasks[i].copy # {}
        /\ \E j \in Slots :
              /\ tasks[j].op = "connect"
              /\ tasks[j].project = tasks[i].project
              /\ tasks[j].ws \notin tasks[i].copy

\* C25: no send, the acknowledgement of connect included, is in progress
\* while the lock is held.
C25_NoSendUnderLock ==
    \A i \in Slots : tasks[i].pc \in {"acking", "sending"} => lock # i

\* C26: a connect or disconnect suspended on the lock is never kept waiting
\* by a coroutine working for another project.
C26_LockPerProject ==
    \A i \in Slots :
        (tasks[i].pc \in {"waiting", "removing"} /\ lock # 0)
           => tasks[lock].project = tasks[i].project

\* C27: no entry of connections maps to an empty set (an entry exists exactly
\* for the projects with a socket), and a disconnect that takes the last
\* socket of a project, called explicitly or after a failed send, deletes its
\* entry.
C27_NoEmptyChannel ==
    /\ \A p \in DOMAIN connections : connections[p] # {}
    /\ \A p \in Projects : p \in DOMAIN connections <=> Audience(connections, p) # {}

\* a disconnect took the last socket of a project that connect had added
C27_Witness ==
    \E i, j \in Slots :
        /\ tasks[i].op = "disconnect"
        /\ tasks[i].pc = "done"
        /\ tasks[j].op = "connect"
        /\ tasks[j].pc = "done"
        /\ tasks[j].project = tasks[i].project
        /\ tasks[j].ws = tasks[i].ws
        /\ tasks[i].project \notin DOMAIN connections
        /\ connections # <<>>

\* C31: every message a broadcast sends to a socket carries a timestamp: the
\* reading of the clock when the caller passed none, the caller's own
\* otherwise, and the same for every socket of the broadcast.
C31_MessagesStamped ==
    \A i \in Slots :
        tasks[i].op = "broadcast"
           => \A d \in tasks[i].sent :
                 /\ "timestamp" \in DOMAIN d[2]
                 /\ d[2].type = tasks[i].given.type
                 /\ "timestamp" \in DOMAIN tasks[i].given
                       => d[2].timestamp = tasks[i].given.timestamp
                 /\ \A e \in tasks[i].sent : e[2] = d[2]

\* a broadcast delivered a message the caller had stamped to every socket
C31_Witness ==
    \E i \in Slots :
        /\ Returned(i)
        /\ "timestamp" \in DOMAIN tasks[i].given
        /\ Cardinality(tasks[i].delivered) = MaxSubscribers
        /\ \A w \in tasks[i].delivered : <<w, tasks[i].given>> \in tasks[i].sent

\* C32: the first message a socket receives is the connected acknowledgement
\* of its connect, never a message of a broadcast.
C32_AckFirst ==
    \A w \in Subscribers : first[w] \in {"none", "connected"}

\* C33: once the websocket_endpoint of a socket has terminated, by its
\* finally or by an exception, the socket is in no set of connections.
C33_TerminatedUnregistered ==
    \A w \in Subscribers :
        endpoint[w].pc \in {"closed", "raised"}
           => \A p \in Projects : w \notin Audience(connections, p)

\* C36: after a successful request_revision(n) the writing agent's prompt for
\* chapter n is marked as a revision and the revision request it looks for
\* has the version index of the one request_revision wrote.
C36_RevisionHandoff ==
    [][\A n \in args :
         (RevisionStep(n) /\ result'.success)
            => /\ IsRevision(state', n)
               /\ RevisionLookedUp(state', n) = result'.iteration]_vars

\* the request_revision(n) of the last dispatch returned auto_approve
AutoApproved(n) ==
    /\ result.tool = "request_revision"
    /\ result.chapter_number = n
    /\ result.auto_approve

ApprovedChapters == Range(state.chapters_approved)

\* C34: while phase is WRITING or WRITE_CRITIQUE the approved chapters are
\* exactly 1..current_chapter-1, and an approve_chapter(n) for a chapter
\* that is not the current one, or is approved already, leaves
\* current_chapter as it was.
C34_ApprovedBelowCurrent ==
    /\ [](state.phase \in {"WRITING", "WRITE_CRITIQUE"}
            => ApprovedChapters = 1..(state.current_chapter - 1))
    /\ [][\A n \in args :
            (ApproveStep(n)
               /\ (n # state.current_chapter \/ n \in ApprovedChapters))
               => state'.current_chapter = state.current_chapter]_vars

\* C35: when phase is COMPLETE the approved chapters are exactly
\* 1..total_chapters, total_chapters is positive and every approved chapter
\* has a written draft.
C35_CompleteMeansAllApproved ==
    state.phase = "COMPLETE"
       => /\ state.total_chapters > 0
          /\ ApprovedChapters = 1..state.total_chapters
          /\ ApprovedChapters \subseteq manuscript

====
